---- MODULE Spec2Model ----
(***************************************************************************)
(* Model of the renderer backend abstraction of alacritty (vulkan branch): *)
(*                                                                         *)
(*   - the device / surface / swapchain negotiation of                     *)
(*     VulkanQuadRenderer::new (vk_renderer/mod.rs, swapchain_ext.rs,      *)
(*     window_ext.rs), one action per statement block of `new`;            *)
(*   - the runtime dispatcher RuntimeQuadRenderer and its context unions   *)
(*     RuntimeRenderer / RuntimeLoader (renderer/runtime.rs), one action   *)
(*     per trait method, with the with_api / with_loader wrappers of       *)
(*     RenderContext (renderer/generic.rs) and the bodies they invoke;     *)
(*   - startup: the backend match of Window::new (window.rs) and the       *)
(*     stages of VulkanInstance::new (vk_renderer/mod.rs).                 *)
(*                                                                         *)
(* Rust's Option is a sequence of length 0 (None) or 1 (Some(x)).          *)
(* The answers of the Vulkan driver and of the window system (device list, *)
(* queue families, surface support, surface capabilities, window size) are *)
(* the inputs; they are modelled in their Ok / Some case, that is, the     *)
(* unwrap() calls on them at mod.rs:179, 181 and 238 do not fail.          *)
(* Counts and extents are u32 in the source; the values drawn here are far *)
(* below u32::MAX, so no addition of the model wraps.                      *)
(***************************************************************************)
EXTENDS Integers, Sequences, FiniteSets, TLC

\* ------------------------------------------------------------- bounds
MaxDevices == 2
MaxFamilies == 2
MaxQueues == 1
MaxFormats == 2
MaxImageCount == 3
MaxExtent == 2
MaxCalls == 3

VARIABLES
    devices,             \* what PhysicalDevice::enumerate yields, in order
    window,              \* the window behind the surface: logical size, hidpi factor
    pc,                  \* the statement of VulkanQuadRenderer::new to run next
    steps,               \* the statements of `new` run so far, in order
    solution,            \* Option<PhysicalDeviceSolution>
    requested,           \* the (family id, priority) pairs handed to Device::new
    queues,              \* the queues Device::new returned, not yet taken
    graphics_queue,      \* Option: the queue taken for graphics
    presentation_queue,  \* Option: the queue taken for presentation
    win_size,            \* Option<(win_width, win_height)>
    sharing,             \* Option<SharingMode>
    format,              \* Option<(Format, ColorSpace)>
    present_mode,        \* Option<PresentMode>
    swapchain,           \* Option: the parameters Swapchain::new was called with
    result,              \* Option<Result<VkQuadRenderer, VulkanInstanceCreationError>>
    renderer,            \* Option<RuntimeQuadRenderer>: the dispatcher, by its variant
    backend_calls,       \* per variant: the calls its backend instance has received
    api,                 \* the live RuntimeRenderer / RuntimeLoader values, oldest first
    context_calls,       \* per variant: the calls its contexts have received
    issued,              \* the calls made on the dispatcher and on its context unions
    panicked,            \* an unimplemented!() was reached, or a body failed
    scope,               \* Option: the with_* wrapper whose body is running
    bodies,              \* the outcome of every body a with_* wrapper has invoked
    returned,            \* the values the with_* wrappers have returned
    renderer_api,        \* config.renderer_api()
    window_result,       \* Option<Result<(Window, Option<VkInstance>)>> of Window::new
    instance_ret,        \* Option<VkInstance>
    features             \* the cargo features the build enables

nvars == <<devices, window, pc, steps, solution, requested, queues, graphics_queue,
           presentation_queue, win_size, sharing, format, present_mode, swapchain,
           result>>

dvars == <<renderer, backend_calls, api, context_calls, issued, panicked, scope, bodies,
           returned>>

svars == <<renderer_api, window_result, instance_ret, features>>

vars == <<nvars, dvars, svars>>

\* ------------------------------------------------------------- Option
None == <<>>

Some(x) == <<x>>

Unwrap(o) == o[1]

SeqsUpTo(S, n) == UNION {[1..k -> S] : k \in 0..n}

\* Iterator::next on a fresh iterator: the first element, if any. Iterator::find(P)
\* is filter(P).next().
next(s) == IF s = <<>> THEN None ELSE Some(Head(s))

Min(a, b) == IF a <= b THEN a ELSE b

Max(a, b) == IF a >= b THEN a ELSE b

\* ------------------------------------------------------------- swapchain_ext.rs
PresentModeNames == {"immediate", "mailbox", "fifo", "relaxed"}

SupportedPresentModes == [PresentModeNames -> BOOLEAN]

\* A variant that tests fifo before mailbox and immediate.
choose_present_mode_fifo_first(modes) ==
    IF modes["fifo"] THEN Some("Fifo")
    ELSE IF modes["mailbox"] THEN Some("Mailbox")
    ELSE IF modes["immediate"] THEN Some("Immediate")
    ELSE None

choose_present_mode(modes) ==
    IF modes["mailbox"] THEN Some("Mailbox")
    ELSE IF modes["immediate"] THEN Some("Immediate")
    ELSE IF modes["fifo"] THEN Some("Fifo")
    ELSE None

\* A variant that forgets the clamp to max_image_count.
choose_image_count_unclamped(caps) == caps.min_image_count + 1

choose_image_count(caps) ==
    LET image_count == caps.min_image_count + 1
    IN IF caps.max_image_count # None
       THEN Min(image_count, Unwrap(caps.max_image_count))
       ELSE image_count

\* A variant that clamps with min and max exchanged.
choose_extent_swapped(caps, actual_width, actual_height) ==
    IF caps.current_extent # None
    THEN Unwrap(caps.current_extent)
    ELSE << Min(caps.min_image_extent[1], Max(caps.max_image_extent[1], actual_width)),
            Min(caps.min_image_extent[2], Max(caps.max_image_extent[2], actual_height)) >>

choose_extent(caps, actual_width, actual_height) ==
    IF caps.current_extent # None
    THEN Unwrap(caps.current_extent)
    ELSE << Max(caps.min_image_extent[1], Min(caps.max_image_extent[1], actual_width)),
            Max(caps.min_image_extent[2], Min(caps.max_image_extent[2], actual_height)) >>

\* ------------------------------------------------------------- window_ext.rs
\* LogicalSize::to_physical multiplies by the hidpi factor (f64). The factor is
\* kept in halves (2 = 1.0, 3 = 1.5, 4 = 2.0), so a PhysicalSize is kept doubled.
get_inner_physical_size(w) ==
    Some([width2 |-> w.inner_size[1] * w.hidpi_factor2,
          height2 |-> w.inner_size[2] * w.hidpi_factor2])

\* PhysicalSize -> (u32, u32): each f64 is rounded (half away from zero) and cast.
into_u32_pair(physical) ==
    << (physical.width2 + 1) \div 2, (physical.height2 + 1) \div 2 >>

\* ------------------------------------------------------------- vk_renderer/mod.rs
DEFAULT_QUEUE_PRIORITY == 1

PreferredFormat == <<"B8G8R8A8Unorm", "SrgbNonLinear">>

QueueFamily(dev, i) ==
    [id |-> i - 1,
     queues_count |-> dev.families[i].queues_count,
     supports_graphics |-> dev.families[i].supports_graphics,
     surface_supported |-> dev.families[i].surface_supported]

queue_families(dev) == [i \in 1..Len(dev.families) |-> QueueFamily(dev, i)]

supported_extensions(dev) == [khr_swapchain |-> dev.khr_swapchain]

has_queues(queue_family) == queue_family.queues_count > 0

supports_graphics(queue_family) == queue_family.supports_graphics

\* A variant that forgets the queue count of the presentation family.
can_present_any_count(queue_family) == queue_family.surface_supported

can_present(queue_family) ==
    queue_family.surface_supported /\ queue_family.queues_count > 0

\* A variant that prefers a graphics family that can also present.
find_graphics_family_shared(dev) ==
    LET graphics == SelectSeq(SelectSeq(queue_families(dev), has_queues), supports_graphics)
    IN IF SelectSeq(graphics, can_present) # <<>>
       THEN next(SelectSeq(graphics, can_present))
       ELSE next(graphics)

find_graphics_family(dev) ==
    next(SelectSeq(SelectSeq(queue_families(dev), has_queues), supports_graphics))

find_presentation_family(dev) == next(SelectSeq(queue_families(dev), can_present))

\* A variant that also excludes a device without the preferred format pair.
find_solution_with_format(self) ==
    LET dev == devices[self]
    IN IF ~supported_extensions(dev).khr_swapchain THEN None
       ELSE IF find_graphics_family(dev) = None THEN None
       ELSE IF find_presentation_family(dev) = None THEN None
       ELSE IF \A k \in 1..Len(dev.capabilities.supported_formats) :
                   dev.capabilities.supported_formats[k] # PreferredFormat THEN None
       ELSE Some([physical_device |-> self,
                  graphics_family |-> Unwrap(find_graphics_family(dev)),
                  presentation_family |-> Unwrap(find_presentation_family(dev)),
                  capabilities |-> dev.capabilities])

\* PhysicalDeviceExt::find_solution on the device with index `self`
find_solution(self) ==
    LET dev == devices[self]
    IN IF ~supported_extensions(dev).khr_swapchain THEN None
       ELSE IF find_graphics_family(dev) = None THEN None
       ELSE IF find_presentation_family(dev) = None THEN None
       ELSE Some([physical_device |-> self,
                  graphics_family |-> Unwrap(find_graphics_family(dev)),
                  presentation_family |-> Unwrap(find_presentation_family(dev)),
                  capabilities |-> dev.capabilities])

\* A variant that keeps the last solution of the enumeration.
last_solution ==
    LET hits == {i \in 1..Len(devices) : find_solution(i) # None}
    IN IF hits = {} THEN None
       ELSE find_solution(CHOOSE i \in hits : \A j \in hits : i >= j)

\* enumerate().filter_map(find_solution).next()
first_solution ==
    LET hits == {i \in 1..Len(devices) : find_solution(i) # None}
    IN IF hits = {} THEN None
       ELSE find_solution(CHOOSE i \in hits : \A j \in hits : i <= j)

\* A variant that accepts the preferred format in any colour space.
is_preferred_format_only(v) == v[1] = PreferredFormat[1]

is_preferred(v) == v[1] = PreferredFormat[1] /\ v[2] = PreferredFormat[2]

best_format(sol) == next(SelectSeq(sol.capabilities.supported_formats, is_preferred))

queues_are_same(sol) == sol.graphics_family.id = sol.presentation_family.id

\* A variant that always requests the graphics and the presentation family.
families_both(sol) ==
    << <<sol.graphics_family, DEFAULT_QUEUE_PRIORITY>>,
       <<sol.presentation_family, DEFAULT_QUEUE_PRIORITY>> >>

families(sol) ==
    IF queues_are_same(sol)
    THEN << <<sol.graphics_family, DEFAULT_QUEUE_PRIORITY>> >>
    ELSE << <<sol.graphics_family, DEFAULT_QUEUE_PRIORITY>>,
            <<sol.presentation_family, DEFAULT_QUEUE_PRIORITY>> >>

\* A variant that lists the ids in ascending order.
image_sharing_mode_sorted(sol) ==
    IF queues_are_same(sol)
    THEN [mode |-> "Exclusive", ids |-> <<sol.graphics_family.id>>]
    ELSE [mode |-> "Concurrent",
          ids |-> << Min(sol.graphics_family.id, sol.presentation_family.id),
                     Max(sol.graphics_family.id, sol.presentation_family.id) >>]

image_sharing_mode(sol) ==
    IF queues_are_same(sol)
    THEN [mode |-> "Exclusive", ids |-> <<sol.graphics_family.id>>]
    ELSE [mode |-> "Concurrent",
          ids |-> <<sol.graphics_family.id, sol.presentation_family.id>>]

\* VulkanInstanceCreationError and the Ok value of `new`
Err(variant, message) == [variant |-> variant, message |-> message]

Ok == [variant |-> "Ok", message |-> ""]

\* A variant in which both Dynamic errors carry the same message.
NoFormatMessage_same == "No suitable present modes"

NoFormatMessage == "No suitable supported formats"

NoPresentModeMessage == "No suitable present modes"

\* ------------------------------------------------------------- renderer/runtime.rs
Variants == {"Classic", "Vulkan"}

\* The type each variant of RuntimeQuadRenderer wraps.
BackendType(variant) == IF variant = "Classic" THEN "QuadRenderer" ELSE "VulkanQuadRenderer"

RuntimeQuadRenderer(variant) == [variant |-> variant, wrapped |-> BackendType(variant)]

Call(op, args) == [op |-> op, args |-> args]

\* No dispatcher exists (while the backend is still being negotiated).
NoDispatcher ==
    /\ renderer = None
    /\ backend_calls = [v \in Variants |-> <<>>]
    /\ api = None
    /\ context_calls = [v \in Variants |-> <<>>]
    /\ issued = <<>>
    /\ panicked = FALSE
    /\ scope = None
    /\ bodies = <<>>
    /\ returned = <<>>

\* Every method of VkQuadRenderer, VulkanRenderApi and VulkanLoaderApi is
\* unimplemented!(): mod.rs:276-344.
VkQuadRenderer_silent == FALSE

VkQuadRenderer_unimplemented == TRUE

\* QuadRenderer and its RenderApi / LoaderApi are the classic backend; the
\* capability calls return normally (spec, 4.1 and 7).
QuadRenderer_unimplemented == FALSE

panics(variant) ==
    IF variant = "Vulkan" THEN VkQuadRenderer_unimplemented ELSE QuadRenderer_unimplemented

\* A variant in which a method overwrites *self with the other tag.
self_after_switched(r) ==
    [r EXCEPT !.variant = IF r.variant = "Classic" THEN "Vulkan" ELSE "Classic"]

\* The dispatcher after one of its methods has run: every arm binds the wrapped
\* value by `ref mut` and calls it; none assigns *self.
self_after(r) == r

\* `match self` of each forwarding method: the variant whose arm runs.
unwrap_base_mut(r) == r.variant

\* A variant whose Vulkan arm forwards to the classic backend.
resize_arm_classic(r) == "Classic"

resize_arm(r) == r.variant

\* borrow_api / borrow_loader: the backend asked, and the variant the context is wrapped in.
borrow_api_arm(r) == [backend |-> r.variant, wrapped |-> r.variant]

borrow_loader_arm(r) == [backend |-> r.variant, wrapped |-> r.variant]

RuntimeRenderer_unwrap(a) == a.variant

\* A variant whose arms are exchanged.
RuntimeRenderer_unwrap_mut_other(a) == IF a.variant = "Classic" THEN "Vulkan" ELSE "Classic"

RuntimeRenderer_unwrap_mut(a) == a.variant

RuntimeLoader_unwrap_mut(a) == a.variant

\* The arguments the caller passes.
ResizeArgs == {<<size, px, py>> : size \in {<<1, 2>>, <<2, 1>>}, px \in {0, 1}, py \in {0, 1}}

DrawRectsArgs == {<<bell, rects>> : bell \in {0, 1}, rects \in {"none", "underline"}}

Colors == {"black", "white"}

Lines == {<<"ab", 0>>, <<"c", 1>>}

Cells == {"a", "b"}

Glyphs == {"g", "h"}

\* What a body passed to a with_* wrapper returns.
BodyResults == {"unit", "value"}

\* The feature names the sources test. Cargo feature names are case-sensitive:
\* config/renderer.rs:6 tests "Vulkan", runtime.rs and window.rs test "vulkan".
FeatureNames == {"vulkan", "Vulkan"}

\* The builds: every set of enabled features.
Builds == SUBSET FeatureNames

\* config/renderer.rs:3-8: the variants of RendererApi, which are the values
\* the derived Deserialize accepts for the configuration and renderer_api() returns.
RendererApi_variants(enabled) ==
    {"Classic"} \cup (IF "Vulkan" \in enabled THEN {"Vulkan"} ELSE {})

\* runtime.rs:89-93: the variants of the dispatcher; each of its matches has the
\* same arms under the same cfg (runtime.rs:95-149).
RuntimeQuadRenderer_variants(enabled) ==
    {"Classic"} \cup (IF "vulkan" \in enabled THEN {"Vulkan"} ELSE {})

\* window.rs:244-258: the arms of the match on config.renderer_api()
Window_new_arms(enabled) ==
    {"Classic"} \cup (IF "vulkan" \in enabled THEN {"Vulkan"} ELSE {})

\* window.rs:244-258: the match type-checks when every arm names a variant of
\* RendererApi and every variant has an arm.
match_type_checks(enabled) ==
    Window_new_arms(enabled) = RendererApi_variants(enabled)

\* The state after startup: Window::new has returned for the configured api, in a
\* build that has it.
StartupDone(v) ==
    /\ features \in {enabled \in Builds : /\ match_type_checks(enabled)
                                          /\ v \in RendererApi_variants(enabled)}
    /\ renderer_api = v
    /\ window_result = Some(Ok)
    /\ instance_ret = IF v = "Vulkan" THEN Some("VulkanInstance") ELSE None

DispatchInit ==
    /\ devices = <<>>
    /\ window = [inner_size |-> <<0, 0>>, hidpi_factor2 |-> 2]
    /\ pc = "idle"
    /\ steps = <<>>
    /\ solution = None
    /\ requested = <<>>
    /\ queues = <<>>
    /\ graphics_queue = None
    /\ presentation_queue = None
    /\ win_size = None
    /\ sharing = None
    /\ format = None
    /\ present_mode = None
    /\ swapchain = None
    /\ result = None
    /\ \E v \in Variants : renderer = Some(RuntimeQuadRenderer(v)) /\ StartupDone(v)
    /\ backend_calls = [v \in Variants |-> <<>>]
    /\ api = None
    /\ context_calls = [v \in Variants |-> <<>>]
    /\ issued = <<>>
    /\ panicked = FALSE
    /\ scope = None
    /\ bodies = <<>>
    /\ returned = <<>>

\* The caller may call: nothing has panicked, and the call log is within its bound.
CanCall == renderer # None /\ ~panicked /\ Len(issued) < MaxCalls

\* A variant in which the receivers are shared references (`&self`).
Unborrowed_shared == TRUE

\* A method taking `&mut self` on the dispatcher needs it unborrowed: a context
\* holds the borrow `&'a mut self` for as long as it lives.
Unborrowed == api = None

\* The call reaches the backend instance of `variant`.
ToBackend(variant, call) ==
    /\ backend_calls' = [backend_calls EXCEPT ![variant] = Append(@, call)]
    /\ panicked' = panics(variant)

\* The call reaches the context of `variant`.
ToContext(variant, call) ==
    /\ context_calls' = [context_calls EXCEPT ![variant] = Append(@, call)]
    /\ panicked' = panics(variant)

\* A variant of resize that takes `&self`.
Resize_shared ==
    /\ CanCall
    /\ \E args \in ResizeArgs :
          /\ issued' = Append(issued, Call("resize", args))
          /\ ToBackend(resize_arm(Unwrap(renderer)), Call("resize", args))
    /\ renderer' = Some(self_after(Unwrap(renderer)))
    /\ UNCHANGED <<nvars, svars, api, context_calls, scope, bodies, returned>>

\* runtime.rs:107-114
Resize ==
    /\ CanCall /\ Unborrowed
    /\ \E args \in ResizeArgs :
          /\ issued' = Append(issued, Call("resize", args))
          /\ ToBackend(resize_arm(Unwrap(renderer)), Call("resize", args))
    /\ renderer' = Some(self_after(Unwrap(renderer)))
    /\ UNCHANGED <<nvars, svars, api, context_calls, scope, bodies, returned>>

\* A variant of draw_rects that takes `&self`.
DrawRects_shared ==
    /\ CanCall
    /\ \E args \in DrawRectsArgs :
          /\ issued' = Append(issued, Call("draw_rects", args))
          /\ ToBackend(unwrap_base_mut(Unwrap(renderer)), Call("draw_rects", args))
    /\ renderer' = Some(self_after(Unwrap(renderer)))
    /\ UNCHANGED <<nvars, svars, api, context_calls, scope, bodies, returned>>

\* runtime.rs:116-124
DrawRects ==
    /\ CanCall /\ Unborrowed
    /\ \E args \in DrawRectsArgs :
          /\ issued' = Append(issued, Call("draw_rects", args))
          /\ ToBackend(unwrap_base_mut(Unwrap(renderer)), Call("draw_rects", args))
    /\ renderer' = Some(self_after(Unwrap(renderer)))
    /\ UNCHANGED <<nvars, svars, api, context_calls, scope, bodies, returned>>

\* runtime.rs:131-141
BorrowApi ==
    /\ CanCall /\ Unborrowed
    /\ issued' = Append(issued, Call("borrow_api", <<>>))
    /\ LET arm == borrow_api_arm(Unwrap(renderer))
       IN /\ ToBackend(arm.backend, Call("borrow_api", <<>>))
          /\ api' = IF panics(arm.backend) THEN api
                    ELSE Append(api, [union |-> "RuntimeRenderer", variant |-> arm.wrapped])
    /\ renderer' = Some(self_after(Unwrap(renderer)))
    /\ UNCHANGED <<nvars, svars, context_calls, scope, bodies, returned>>

\* runtime.rs:143-149
BorrowLoader ==
    /\ CanCall /\ Unborrowed
    /\ issued' = Append(issued, Call("borrow_loader", <<>>))
    /\ LET arm == borrow_loader_arm(Unwrap(renderer))
       IN /\ ToBackend(arm.backend, Call("borrow_loader", <<>>))
          /\ api' = IF panics(arm.backend) THEN api
                    ELSE Append(api, [union |-> "RuntimeLoader", variant |-> arm.wrapped])
    /\ renderer' = Some(self_after(Unwrap(renderer)))
    /\ UNCHANGED <<nvars, svars, context_calls, scope, bodies, returned>>

\* generic.rs:35-47 (with_api) and runtime.rs:151-161 (with_api_dynamic): borrow_api,
\* then the body is invoked with the context.
WithApi ==
    /\ CanCall /\ Unborrowed
    /\ \E kind \in {"with_api", "with_api_dynamic"} :
          /\ issued' = Append(issued, Call(kind, <<>>))
          /\ LET arm == borrow_api_arm(Unwrap(renderer))
             IN /\ ToBackend(arm.backend, Call("borrow_api", <<>>))
                /\ IF panics(arm.backend)
                   THEN UNCHANGED <<api, scope, bodies>>
                   ELSE /\ api' = Append(api, [union |-> "RuntimeRenderer",
                                               variant |-> arm.wrapped])
                        /\ scope' = Some(kind)
                        /\ bodies' = Append(bodies, "running")
    /\ renderer' = Some(self_after(Unwrap(renderer)))
    /\ UNCHANGED <<nvars, svars, context_calls, returned>>

\* generic.rs:49-58 (with_loader) and runtime.rs:163-171 (with_loader_dynamic)
WithLoader ==
    /\ CanCall /\ Unborrowed
    /\ \E kind \in {"with_loader", "with_loader_dynamic"} :
          /\ issued' = Append(issued, Call(kind, <<>>))
          /\ LET arm == borrow_loader_arm(Unwrap(renderer))
             IN /\ ToBackend(arm.backend, Call("borrow_loader", <<>>))
                /\ IF panics(arm.backend)
                   THEN UNCHANGED <<api, scope, bodies>>
                   ELSE /\ api' = Append(api, [union |-> "RuntimeLoader",
                                               variant |-> arm.wrapped])
                        /\ scope' = Some(kind)
                        /\ bodies' = Append(bodies, "running")
    /\ renderer' = Some(self_after(Unwrap(renderer)))
    /\ UNCHANGED <<nvars, svars, context_calls, returned>>

\* The live contexts without the most recent one.
Dropped == SubSeq(api, 1, Len(api) - 1)

\* The body returns (at its end or early): the context it was given is dropped,
\* and the wrapper returns the body's value.
BodyReturn ==
    /\ renderer # None /\ ~panicked
    /\ scope # None
    /\ \E value \in BodyResults :
          /\ bodies' = [bodies EXCEPT ![Len(bodies)] = value]
          /\ returned' = Append(returned, value)
    /\ api' = Dropped
    /\ scope' = None
    /\ UNCHANGED <<nvars, svars, renderer, backend_calls, context_calls, issued, panicked>>

\* The body fails (panics): unwinding drops the context, the wrapper returns nothing.
BodyFail ==
    /\ renderer # None /\ ~panicked
    /\ scope # None
    /\ bodies' = [bodies EXCEPT ![Len(bodies)] = "failed"]
    /\ api' = Dropped
    /\ scope' = None
    /\ panicked' = TRUE
    /\ UNCHANGED <<nvars, svars, renderer, backend_calls, context_calls, issued, returned>>

HasRenderer == api # None /\ Unwrap(api).union = "RuntimeRenderer"

HasLoader == api # None /\ Unwrap(api).union = "RuntimeLoader"

\* runtime.rs:43-45
Clear ==
    /\ CanCall /\ HasRenderer
    /\ \E color \in Colors :
          /\ issued' = Append(issued, Call("clear", <<color>>))
          /\ ToContext(RuntimeRenderer_unwrap(Unwrap(api)), Call("clear", <<color>>))
    /\ UNCHANGED <<nvars, svars, renderer, api, backend_calls, scope, bodies, returned>>

\* runtime.rs:47-55
RenderString ==
    /\ CanCall /\ HasRenderer
    /\ \E line \in Lines :
          /\ issued' = Append(issued, Call("render_string", line))
          /\ ToContext(RuntimeRenderer_unwrap_mut(Unwrap(api)), Call("render_string", line))
    /\ UNCHANGED <<nvars, svars, renderer, api, backend_calls, scope, bodies, returned>>

\* runtime.rs:57-59
RenderCell ==
    /\ CanCall /\ HasRenderer
    /\ \E cell \in Cells :
          /\ issued' = Append(issued, Call("render_cell", <<cell>>))
          /\ ToContext(RuntimeRenderer_unwrap_mut(Unwrap(api)), Call("render_cell", <<cell>>))
    /\ UNCHANGED <<nvars, svars, renderer, api, backend_calls, scope, bodies, returned>>

\* runtime.rs:80-82
LoadGlyph ==
    /\ CanCall /\ HasLoader
    /\ \E glyph \in Glyphs :
          /\ issued' = Append(issued, Call("load_glyph", <<glyph>>))
          /\ ToContext(RuntimeLoader_unwrap_mut(Unwrap(api)), Call("load_glyph", <<glyph>>))
    /\ UNCHANGED <<nvars, svars, renderer, api, backend_calls, scope, bodies, returned>>

\* runtime.rs:84-86
LoaderClear ==
    /\ CanCall /\ HasLoader
    /\ issued' = Append(issued, Call("loader_clear", <<>>))
    /\ ToContext(RuntimeLoader_unwrap_mut(Unwrap(api)), Call("loader_clear", <<>>))
    /\ UNCHANGED <<nvars, svars, renderer, api, backend_calls, scope, bodies, returned>>

\* A context acquired by borrow_api / borrow_loader goes out of scope: the borrow
\* of the dispatcher ends.
Release ==
    /\ renderer # None /\ ~panicked
    /\ api # None /\ scope = None
    /\ api' = Dropped
    /\ UNCHANGED <<nvars, svars, renderer, backend_calls, context_calls, issued, panicked,
                   scope, bodies, returned>>

DispatchNext ==
    \/ Resize
    \/ DrawRects
    \/ BorrowApi
    \/ BorrowLoader
    \/ WithApi
    \/ WithLoader
    \/ BodyReturn
    \/ BodyFail
    \/ Clear
    \/ RenderString
    \/ RenderCell
    \/ LoadGlyph
    \/ LoaderClear
    \/ Release

SpecDispatch == DispatchInit /\ [][DispatchNext]_vars

\* ------------------------------------------------------------- the inputs
FamilyProps ==
    [queues_count : 0..MaxQueues, supports_graphics : BOOLEAN, surface_supported : BOOLEAN]

Family(q, g, p) == [queues_count |-> q, supports_graphics |-> g, surface_supported |-> p]

FormatPairs == {"B8G8R8A8Unorm", "B8G8R8A8Srgb"} \X {"SrgbNonLinear", "ExtendedSrgbLinear"}

Extents == (0..MaxExtent) \X (0..MaxExtent)

OnlyFifo == [m \in PresentModeNames |-> m = "fifo"]

NoModes == [m \in PresentModeNames |-> FALSE]

\* A surface that offers the preferred format and FIFO, with no current extent.
DefaultCaps ==
    [supported_formats |-> <<PreferredFormat>>,
     present_modes |-> OnlyFifo,
     min_image_count |-> 2,
     max_image_count |-> None,
     current_extent |-> None,
     min_image_extent |-> <<1, 1>>,
     max_image_extent |-> <<MaxExtent, MaxExtent>>]

OtherFormat == <<"B8G8R8A8Srgb", "SrgbNonLinear">>

\* The capability sets of the devices of an enumeration of several devices:
\* with and without the preferred format, with and without a present mode.
ListCaps ==
    {[DefaultCaps EXCEPT !.supported_formats = f, !.present_modes = m] :
        f \in {<<PreferredFormat>>, <<OtherFormat>>}, m \in {OnlyFifo, NoModes}}

Device(khr, fams, caps) == [khr_swapchain |-> khr, families |-> fams, capabilities |-> caps]

\* The shapes of the devices of an enumeration of several devices: no swapchain
\* extension, no family, graphics only, presentation only, a family without queues,
\* one family for both, and two families in both orders.
ListShapes ==
    { <<FALSE, <<Family(1, TRUE, TRUE)>> >>,
      <<TRUE, <<>> >>,
      <<TRUE, <<Family(1, TRUE, FALSE)>> >>,
      <<TRUE, <<Family(1, FALSE, TRUE)>> >>,
      <<TRUE, <<Family(0, TRUE, TRUE)>> >>,
      <<TRUE, <<Family(1, TRUE, TRUE)>> >>,
      <<TRUE, <<Family(1, TRUE, FALSE), Family(1, FALSE, TRUE)>> >>,
      <<TRUE, <<Family(1, FALSE, TRUE), Family(1, TRUE, FALSE)>> >> }

ListDevices == {Device(sh[1], sh[2], c) : sh \in ListShapes, c \in ListCaps}

\* Every device with up to MaxFamilies families of up to MaxQueues queues.
AllDevices ==
    {Device(khr, fams, DefaultCaps) : khr \in BOOLEAN, fams \in SeqsUpTo(FamilyProps, MaxFamilies)}

Windows == [inner_size : Extents, hidpi_factor2 : {2, 3, 4}]

DefaultWindow == [inner_size |-> <<1, 1>>, hidpi_factor2 |-> 2]

\* One device with one family for both roles, and the given surface capabilities.
OneDevice(caps) == <<Device(TRUE, <<Family(1, TRUE, TRUE)>>, caps)>>

FormatCaps ==
    {[DefaultCaps EXCEPT !.supported_formats = f] : f \in SeqsUpTo(FormatPairs, MaxFormats)}

PresentModeCaps == {[DefaultCaps EXCEPT !.present_modes = m] : m \in SupportedPresentModes}

ImageCountCaps ==
    {[DefaultCaps EXCEPT !.min_image_count = lo, !.max_image_count = hi] :
        lo \in 1..MaxImageCount,
        hi \in {None} \cup {Some(n) : n \in 1..(MaxImageCount + 1)}}

ClampedExtentCaps ==
    {[DefaultCaps EXCEPT !.min_image_extent = lo, !.max_image_extent = hi] :
        lo \in Extents, hi \in Extents}

CurrentExtentCaps ==
    {[DefaultCaps EXCEPT !.current_extent = Some(cur), !.min_image_extent = lo,
                         !.max_image_extent = lo] :
        cur \in Extents, lo \in {<<0, 0>>, <<MaxExtent, 1>>}}

\* The inputs of a run of `new`: an enumeration and a window. Each group varies one
\* part of the input over its whole bounded range and fixes the rest.
Inputs ==
    [devices : SeqsUpTo(ListDevices, MaxDevices), window : {DefaultWindow}]
    \cup [devices : {<<d>> : d \in AllDevices}, window : {DefaultWindow}]
    \cup [devices : {OneDevice(c) : c \in FormatCaps \cup PresentModeCaps \cup ImageCountCaps},
          window : {DefaultWindow}]
    \cup [devices : {OneDevice(c) : c \in ClampedExtentCaps}, window : Windows]
    \cup [devices : {OneDevice(c) : c \in CurrentExtentCaps},
          window : {w \in Windows : w.hidpi_factor2 = 4}]

\* ------------------------------------------------------------- VulkanQuadRenderer::new
Init ==
    /\ \E in \in Inputs : devices = in.devices /\ window = in.window
    /\ pc = "select"
    /\ steps = <<>>
    /\ solution = None
    /\ requested = <<>>
    /\ queues = <<>>
    /\ graphics_queue = None
    /\ presentation_queue = None
    /\ win_size = None
    /\ sharing = None
    /\ format = None
    /\ present_mode = None
    /\ swapchain = None
    /\ result = None
    /\ NoDispatcher
    /\ StartupDone("Vulkan")

\* A variant that puts off device creation: it goes from the selection straight to
\* the parameters.
SelectDevice_deferred ==
    /\ pc = "select"
    /\ steps' = Append(steps, "select")
    /\ solution' = first_solution
    /\ IF first_solution = None
       THEN pc' = "failed" /\ result' = Some(Err("NoMatchingDevice", ""))
       ELSE pc' = "window" /\ UNCHANGED result
    /\ UNCHANGED <<dvars, svars, devices, window, requested, queues, graphics_queue, presentation_queue,
                   win_size, sharing, format, present_mode, swapchain>>

\* mod.rs:204-208
SelectDevice ==
    /\ pc = "select"
    /\ steps' = Append(steps, "select")
    /\ solution' = first_solution
    /\ IF first_solution = None
       THEN pc' = "failed" /\ result' = Some(Err("NoMatchingDevice", ""))
       ELSE pc' = "device" /\ UNCHANGED result
    /\ UNCHANGED <<dvars, svars, devices, window, requested, queues, graphics_queue, presentation_queue,
                   win_size, sharing, format, present_mode, swapchain>>

\* Device::new hands back one queue per requested (family, priority), in order.
Device_new(fams) == [i \in 1..Len(fams) |-> [family |-> fams[i][1].id, index |-> i]]

\* mod.rs:210-220
CreateDevice ==
    /\ pc = "device"
    /\ steps' = Append(steps, "device")
    /\ requested' = families(Unwrap(solution))
    /\ \E created \in BOOLEAN :
          IF created
          THEN queues' = Device_new(families(Unwrap(solution))) /\ pc' = "queues"
               /\ UNCHANGED result
          ELSE queues' = <<>> /\ pc' = "failed"
               /\ result' = Some(Err("DeviceCreation", ""))
    /\ UNCHANGED <<dvars, svars, devices, window, solution, graphics_queue, presentation_queue,
                   win_size, sharing, format, present_mode, swapchain>>

\* mod.rs:221-228
TakeQueues ==
    /\ pc = "queues"
    /\ steps' = Append(steps, "queues")
    /\ IF queues_are_same(Unwrap(solution))
       THEN /\ graphics_queue' = next(queues)
            /\ presentation_queue' = next(queues)
            /\ queues' = Tail(queues)
       ELSE /\ graphics_queue' = next(queues)
            /\ presentation_queue' = next(Tail(queues))
            /\ queues' = Tail(Tail(queues))
    /\ pc' = "window"
    /\ UNCHANGED <<dvars, svars, devices, window, solution, requested, win_size, sharing, format,
                   present_mode, swapchain, result>>

\* mod.rs:238
MeasureWindow ==
    /\ pc = "window"
    /\ steps' = Append(steps, "window")
    /\ win_size' = Some(into_u32_pair(Unwrap(get_inner_physical_size(window))))
    /\ pc' = "sharing"
    /\ UNCHANGED <<dvars, svars, devices, window, solution, requested, queues, graphics_queue,
                   presentation_queue, sharing, format, present_mode, swapchain, result>>

\* mod.rs:239
ChooseSharingMode ==
    /\ pc = "sharing"
    /\ steps' = Append(steps, "sharing")
    /\ sharing' = Some(image_sharing_mode(Unwrap(solution)))
    /\ pc' = "format"
    /\ UNCHANGED <<dvars, svars, devices, window, solution, requested, queues, graphics_queue,
                   presentation_queue, win_size, format, present_mode, swapchain, result>>

\* A variant that looks for the present mode before the format.
ChooseFormat_after_present_mode ==
    /\ pc = "format"
    /\ steps' = Append(steps, "format")
    /\ IF choose_present_mode(Unwrap(solution).capabilities.present_modes) = None
       THEN /\ pc' = "failed" /\ result' = Some(Err("Dynamic", NoPresentModeMessage))
            /\ UNCHANGED format
       ELSE /\ format' = best_format(Unwrap(solution))
            /\ IF best_format(Unwrap(solution)) = None
               THEN pc' = "failed" /\ result' = Some(Err("Dynamic", NoFormatMessage))
               ELSE pc' = "present_mode" /\ UNCHANGED result
    /\ UNCHANGED <<dvars, svars, devices, window, solution, requested, queues, graphics_queue,
                   presentation_queue, win_size, sharing, present_mode, swapchain>>

\* mod.rs:240-242
ChooseFormat ==
    /\ pc = "format"
    /\ steps' = Append(steps, "format")
    /\ format' = best_format(Unwrap(solution))
    /\ IF best_format(Unwrap(solution)) = None
       THEN pc' = "failed" /\ result' = Some(Err("Dynamic", NoFormatMessage))
       ELSE pc' = "present_mode" /\ UNCHANGED result
    /\ UNCHANGED <<dvars, svars, devices, window, solution, requested, queues, graphics_queue,
                   presentation_queue, win_size, sharing, present_mode, swapchain>>

\* A variant that goes on to Swapchain::new without a present mode.
ChoosePresentMode_unchecked ==
    /\ pc = "present_mode"
    /\ steps' = Append(steps, "present_mode")
    /\ present_mode' = choose_present_mode(Unwrap(solution).capabilities.present_modes)
    /\ pc' = "swapchain"
    /\ UNCHANGED <<dvars, svars, devices, window, solution, requested, queues, graphics_queue,
                   presentation_queue, win_size, sharing, format, swapchain, result>>

\* mod.rs:243-245
ChoosePresentMode ==
    /\ pc = "present_mode"
    /\ steps' = Append(steps, "present_mode")
    /\ present_mode' = choose_present_mode(Unwrap(solution).capabilities.present_modes)
    /\ IF choose_present_mode(Unwrap(solution).capabilities.present_modes) = None
       THEN pc' = "failed" /\ result' = Some(Err("Dynamic", NoPresentModeMessage))
       ELSE pc' = "swapchain" /\ UNCHANGED result
    /\ UNCHANGED <<dvars, svars, devices, window, solution, requested, queues, graphics_queue,
                   presentation_queue, win_size, sharing, format, swapchain>>

\* The arguments of Swapchain::new, mod.rs:246-260
swapchain_arguments ==
    [num_images |-> choose_image_count(Unwrap(solution).capabilities),
     format |-> Unwrap(format)[1],
     dimensions |-> choose_extent(Unwrap(solution).capabilities,
                                  Unwrap(win_size)[1], Unwrap(win_size)[2]),
     sharing |-> Unwrap(sharing),
     mode |-> Unwrap(present_mode)]

\* mod.rs:246-268
CreateSwapchain ==
    /\ pc = "swapchain"
    /\ steps' = Append(steps, "swapchain")
    /\ swapchain' = Some(swapchain_arguments)
    /\ \E created \in BOOLEAN :
          IF created
          THEN pc' = "done" /\ result' = Some(Ok)
          ELSE pc' = "failed" /\ result' = Some(Err("SwapchainCreation", ""))
    /\ UNCHANGED <<dvars, svars, devices, window, solution, requested, queues, graphics_queue,
                   presentation_queue, win_size, sharing, format, present_mode>>

Next ==
    \/ SelectDevice
    \/ CreateDevice
    \/ TakeQueues
    \/ MeasureWindow
    \/ ChooseSharingMode
    \/ ChooseFormat
    \/ ChoosePresentMode
    \/ CreateSwapchain

Spec == Init /\ [][Next]_vars

\* ------------------------------------------------------------- window.rs, VulkanInstance::new
\* config::RendererApi
\* The startups checked: no device or one device of the catalogue, either api.
StartupInputs ==
    [devices : {<<>>} \cup {<<d>> : d \in ListDevices}, window : {DefaultWindow}]

StartupInit ==
    /\ \E in \in StartupInputs : devices = in.devices /\ window = in.window
    /\ features \in Builds
    /\ renderer_api \in RendererApi_variants(features)
    /\ window_result = None
    /\ instance_ret = None
    /\ pc = "build"
    /\ steps = <<>>
    /\ solution = None
    /\ requested = <<>>
    /\ queues = <<>>
    /\ graphics_queue = None
    /\ presentation_queue = None
    /\ win_size = None
    /\ sharing = None
    /\ format = None
    /\ present_mode = None
    /\ swapchain = None
    /\ result = None
    /\ NoDispatcher

\* The build of the enabled features: the program exists only when the match of
\* Window::new (window.rs:244-258) type-checks against RendererApi
\* (config/renderer.rs:3-8).
Build ==
    /\ pc = "build"
    /\ pc' = IF match_type_checks(features) THEN "window_new" ELSE "build_failed"
    /\ UNCHANGED <<dvars, svars, devices, window, steps, solution, requested, queues,
                   graphics_queue, presentation_queue, win_size, sharing, format,
                   present_mode, swapchain, result>>

\* What create_gl_window returns: Ok, or the error of build_windowed or make_current.
GlOutcomes == {"Ok", "ContextCreation", "Context"}

\* window.rs:245-249, the Classic arm: create_gl_window without sRGB, and on any
\* error once more with sRGB.
CreateGlWindow ==
    /\ pc = "window_new" /\ renderer_api = "Classic"
    /\ \E first \in GlOutcomes, second \in GlOutcomes :
          IF first = "Ok"
          THEN /\ steps' = Append(steps, "create_gl_window(false)")
               /\ pc' = "show"
               /\ UNCHANGED window_result
          ELSE /\ steps' = steps \o <<"create_gl_window(false)", "create_gl_window(true)">>
               /\ IF second = "Ok"
                  THEN pc' = "show" /\ UNCHANGED window_result
                  ELSE pc' = "failed" /\ window_result' = Some(Err(second, ""))
    /\ UNCHANGED <<dvars, devices, window, solution, requested, queues, graphics_queue,
                   presentation_queue, win_size, sharing, format, present_mode, swapchain,
                   result, renderer_api, instance_ret, features>>

\* create_vk_window calls VulkanInstance::new(true, false, ..): window.rs:211
enable_debug == TRUE

\* mod.rs:73-74, reached from the Vulkan arm (window.rs:250-252)
Instance_new ==
    /\ pc = "window_new" /\ renderer_api = "Vulkan"
    /\ steps' = Append(steps, "instance")
    /\ \E created \in BOOLEAN :
          IF created
          THEN pc' = "debug_callback" /\ UNCHANGED result
          ELSE pc' = "vk_failed" /\ result' = Some(Err("Instance", ""))
    /\ UNCHANGED <<dvars, svars, devices, window, solution, requested, queues, graphics_queue,
                   presentation_queue, win_size, sharing, format, present_mode, swapchain>>

\* mod.rs:75-94
DebugCallback_new ==
    /\ pc = "debug_callback"
    /\ steps' = Append(steps, "debug_callback")
    /\ \E created \in BOOLEAN :
          IF enable_debug /\ ~created
          THEN pc' = "vk_failed" /\ result' = Some(Err("DebugCallback", ""))
          ELSE pc' = "surface" /\ UNCHANGED result
    /\ UNCHANGED <<dvars, svars, devices, window, solution, requested, queues, graphics_queue,
                   presentation_queue, win_size, sharing, format, present_mode, swapchain>>

\* mod.rs:95-105, and on success window.rs:253-255
build_vk_surface ==
    /\ pc = "surface"
    /\ steps' = Append(steps, "surface")
    /\ \E created \in BOOLEAN :
          IF created
          THEN /\ pc' = "show"
               /\ instance_ret' = Some("VulkanInstance")
               /\ UNCHANGED result
          ELSE /\ pc' = "vk_failed"
               /\ result' = Some(Err("SurfaceCreation", ""))
               /\ UNCHANGED instance_ret
    /\ UNCHANGED <<dvars, devices, window, solution, requested, queues, graphics_queue,
                   presentation_queue, win_size, sharing, format, present_mode, swapchain,
                   renderer_api, window_result, features>>

\* A variant of the Vulkan arm that falls back to the classic window on an error.
VkWindowFailed_downgrade ==
    /\ pc = "vk_failed"
    /\ steps' = Append(steps, "create_gl_window(false)")
    /\ pc' = "show"
    /\ UNCHANGED <<dvars, svars, devices, window, solution, requested, queues, graphics_queue,
                   presentation_queue, win_size, sharing, format, present_mode, swapchain,
                   result>>

\* window.rs:252, the `?` on create_vk_window: the error is converted (window.rs:150-155)
\* and returned.
VkWindowFailed ==
    /\ pc = "vk_failed"
    /\ window_result' = Some(Err("VulkanInstanceCreation", Unwrap(result).variant))
    /\ pc' = "failed"
    /\ UNCHANGED <<dvars, devices, window, steps, solution, requested, queues, graphics_queue,
                   presentation_queue, win_size, sharing, format, present_mode, swapchain,
                   result, renderer_api, instance_ret, features>>

\* window.rs:259-301: the window is shown and set up, and returned.
WindowReturn ==
    /\ pc = "show"
    /\ window_result' = Some(Ok)
    /\ pc' = "started"
    /\ UNCHANGED <<dvars, devices, window, steps, solution, requested, queues, graphics_queue,
                   presentation_queue, win_size, sharing, format, present_mode, swapchain,
                   result, renderer_api, instance_ret, features>>

\* The application constructs the backend of the chosen variant (spec, 3): for
\* Vulkan it calls VulkanQuadRenderer::new with the instance Window::new returned.
ConstructBackend ==
    /\ pc = "started"
    /\ IF renderer_api = "Vulkan" /\ instance_ret # None
       THEN pc' = "select"
       ELSE pc' = "classic"
    /\ UNCHANGED <<dvars, svars, devices, window, steps, solution, requested, queues,
                   graphics_queue, presentation_queue, win_size, sharing, format,
                   present_mode, swapchain, result>>

StartupNext ==
    \/ Build
    \/ CreateGlWindow
    \/ Instance_new
    \/ DebugCallback_new
    \/ build_vk_surface
    \/ VkWindowFailed
    \/ WindowReturn
    \/ ConstructBackend
    \/ SelectDevice
    \/ CreateDevice
    \/ TakeQueues
    \/ MeasureWindow
    \/ ChooseSharingMode
    \/ ChooseFormat
    \/ ChoosePresentMode
    \/ CreateSwapchain

SpecStartup == StartupInit /\ [][StartupNext]_vars

\* ------------------------------------------------------------- the claims
\* The statement `step` of `new` has run.
Ran(step) == \E i \in 1..Len(steps) : steps[i] = step

Caps == Unwrap(solution).capabilities

\* The device passes the extension, graphics-family and presentation-family checks.
Eligible(i) ==
    /\ devices[i].khr_swapchain
    /\ \E k \in 1..Len(devices[i].families) :
          devices[i].families[k].queues_count > 0 /\ devices[i].families[k].supports_graphics
    /\ \E k \in 1..Len(devices[i].families) :
          devices[i].families[k].queues_count > 0 /\ devices[i].families[k].surface_supported

\* C1: present-mode selection obeys the strict priority mailbox > immediate > fifo
\* over every combination of supported modes; no mode is chosen, and negotiation
\* fails with the "no suitable present mode" error, exactly when none of the three
\* is supported; the relaxed mode never matters.
C1_PresentModePriority ==
    /\ Ran("present_mode") =>
          LET m == Caps.present_modes
          IN /\ m["mailbox"] => present_mode = Some("Mailbox")
             /\ (~m["mailbox"] /\ m["immediate"]) => present_mode = Some("Immediate")
             /\ (~m["mailbox"] /\ ~m["immediate"] /\ m["fifo"]) => present_mode = Some("Fifo")
             /\ present_mode = None <=> (~m["mailbox"] /\ ~m["immediate"] /\ ~m["fifo"])
             /\ present_mode = None <=> result = Some(Err("Dynamic", NoPresentModeMessage))
    /\ ~Ran("present_mode") =>
          present_mode = None /\ result # Some(Err("Dynamic", NoPresentModeMessage))

C1_Witness ==
    /\ Ran("present_mode")
    /\ Caps.present_modes["mailbox"] /\ Caps.present_modes["immediate"]
    /\ Caps.present_modes["fifo"] /\ Caps.present_modes["relaxed"]
    /\ present_mode = Some("Mailbox")

\* C2: `new` keeps the first device of the enumeration that is eligible, whatever
\* the later devices offer, and fails with NoMatchingDevice exactly when no
\* enumerated device is eligible (the empty enumeration included).
C2_FirstEligibleDevice ==
    /\ Ran("select") =>
          /\ solution = None <=> \A i \in 1..Len(devices) : ~Eligible(i)
          /\ solution # None =>
                /\ Eligible(Unwrap(solution).physical_device)
                /\ \A j \in 1..(Unwrap(solution).physical_device - 1) : ~Eligible(j)
          /\ solution = None <=> result = Some(Err("NoMatchingDevice", ""))
    /\ ~Ran("select") => solution = None /\ result = None

C2_Witness ==
    /\ Ran("select")
    /\ Len(devices) = 2
    /\ ~Eligible(1) /\ Eligible(2)
    /\ Unwrap(solution).physical_device = 2

\* C3: find_solution yields a solution for a device exactly when the device has
\* the swapchain extension, a family with a queue that supports graphics and a
\* family with a queue that the surface can present to; the families of a solution
\* are families of that device with a queue and with the respective ability.
C3_FindSolution ==
    \A i \in 1..Len(devices) :
        /\ find_solution(i) # None <=> Eligible(i)
        /\ find_solution(i) # None =>
              LET sol == Unwrap(find_solution(i))
                  g == sol.graphics_family
                  p == sol.presentation_family
              IN /\ g.id + 1 \in 1..Len(devices[i].families)
                 /\ p.id + 1 \in 1..Len(devices[i].families)
                 /\ g = QueueFamily(devices[i], g.id + 1)
                 /\ p = QueueFamily(devices[i], p.id + 1)
                 /\ devices[i].families[g.id + 1].queues_count > 0
                 /\ devices[i].families[g.id + 1].supports_graphics
                 /\ devices[i].families[p.id + 1].queues_count > 0
                 /\ devices[i].families[p.id + 1].surface_supported

C3_Witness ==
    /\ Ran("select")
    /\ Len(devices) = 1
    /\ Len(devices[1].families) = 2
    /\ devices[1].families[1].queues_count = 0
    /\ devices[1].families[1].supports_graphics
    /\ devices[1].families[1].surface_supported
    /\ solution # None
    /\ Unwrap(solution).graphics_family.id = 1
    /\ Unwrap(solution).presentation_family.id = 1

\* C4: the sharing mode of a solution is Exclusive with the graphics family id
\* exactly when the two family ids are equal, and otherwise Concurrent with the
\* two ids in the order graphics, presentation; a Concurrent mode never lists one
\* id twice.
C4_SharingMode ==
    /\ Ran("sharing") =>
          LET gid == Unwrap(solution).graphics_family.id
              pid == Unwrap(solution).presentation_family.id
              m == Unwrap(sharing)
          IN /\ sharing # None
             /\ gid = pid <=> m.mode = "Exclusive"
             /\ gid # pid <=> m.mode = "Concurrent"
             /\ m.mode = "Exclusive" => m.ids = <<gid>>
             /\ m.mode = "Concurrent" => m.ids = <<gid, pid>> /\ m.ids[1] # m.ids[2]
    /\ swapchain # None => Unwrap(swapchain).sharing = Unwrap(sharing)

C4_Witness ==
    /\ Ran("sharing")
    /\ Unwrap(sharing).mode = "Concurrent"
    /\ Unwrap(sharing).ids = <<1, 0>>

\* C5: format selection is exact-match only: the preferred pair is chosen exactly
\* when that pair occurs in the supported formats, at any position; for a list
\* without it negotiation fails with the "no suitable format" error, and no other
\* format is ever chosen.
C5_ExactFormat ==
    /\ Ran("format") =>
          LET listed == \E k \in 1..Len(Caps.supported_formats) :
                            Caps.supported_formats[k] = PreferredFormat
          IN /\ listed <=> format = Some(PreferredFormat)
             /\ ~listed <=> format = None
             /\ ~listed <=> result = Some(Err("Dynamic", NoFormatMessage))
             /\ ~listed => pc = "failed" /\ swapchain = None
    /\ ~Ran("format") => format = None /\ result # Some(Err("Dynamic", NoFormatMessage))
    /\ swapchain # None => Unwrap(swapchain).format = PreferredFormat[1]

C5_Witness ==
    /\ Ran("format")
    /\ Len(Caps.supported_formats) = 2
    /\ Caps.supported_formats[1] = <<"B8G8R8A8Unorm", "ExtendedSrgbLinear">>
    /\ Caps.supported_formats[2] = <<"B8G8R8A8Srgb", "SrgbNonLinear">>
    /\ result = Some(Err("Dynamic", NoFormatMessage))

\* C6: the image count is min_image_count + 1 without a maximum, and the smaller
\* of min_image_count + 1 and max_image_count with one; with min <= max it lies
\* in [min_image_count, max_image_count].
C6_ImageCount ==
    Ran("swapchain") =>
        LET n == Unwrap(swapchain).num_images
            lo == Caps.min_image_count
        IN /\ Caps.max_image_count = None => n = lo + 1
           /\ Caps.max_image_count # None =>
                 LET hi == Unwrap(Caps.max_image_count)
                 IN /\ lo + 1 <= hi => n = lo + 1
                    /\ lo + 1 > hi => n = hi
                    /\ lo <= hi => (lo <= n /\ n <= hi)

C6_Witness ==
    /\ Ran("swapchain")
    /\ Caps.min_image_count = 2
    /\ Caps.max_image_count = Some(2)
    /\ Unwrap(swapchain).num_images = 2

\* The value a clamped into [lo, hi], for lo <= hi.
Clamped(a, lo, hi) == IF a < lo THEN lo ELSE IF a > hi THEN hi ELSE a

\* C7: the extent is the current extent of the surface whenever that is defined,
\* whatever the window size and the extent bounds; otherwise each of width and
\* height is the window's dimension clamped into its bounds, and lies within them
\* when min <= max.
C7_Extent ==
    Ran("swapchain") =>
        LET dims == Unwrap(swapchain).dimensions
            actual == Unwrap(win_size)
        IN /\ Caps.current_extent # None => dims = Unwrap(Caps.current_extent)
           /\ Caps.current_extent = None =>
                 \A k \in 1..2 :
                     Caps.min_image_extent[k] <= Caps.max_image_extent[k] =>
                         /\ dims[k] = Clamped(actual[k], Caps.min_image_extent[k],
                                              Caps.max_image_extent[k])
                         /\ Caps.min_image_extent[k] <= dims[k]
                         /\ dims[k] <= Caps.max_image_extent[k]

C7_Witness ==
    /\ Ran("swapchain")
    /\ Caps.current_extent = None
    /\ Caps.min_image_extent = <<1, 0>>
    /\ Caps.max_image_extent = <<2, 1>>
    /\ Unwrap(win_size) = <<0, 2>>
    /\ Unwrap(swapchain).dimensions = <<1, 1>>

IsBaseCall(c) == c.op \in {"resize", "draw_rects"}

IsContextCall(c) == c.op \in {"clear", "render_string", "render_cell", "load_glyph", "loader_clear"}

\* C9: every resize and draw_rects call on the dispatcher reaches the backend of
\* the active variant exactly once, with its arguments, in order; the backend of
\* the other variant is never called.
C9_BaseCallsForwarded ==
    renderer # None =>
        /\ SelectSeq(backend_calls[Unwrap(renderer).variant], IsBaseCall)
              = SelectSeq(issued, IsBaseCall)
        /\ \A v \in Variants \ {Unwrap(renderer).variant} :
              backend_calls[v] = <<>> /\ context_calls[v] = <<>>

C9_Witness ==
    /\ renderer = Some(RuntimeQuadRenderer("Vulkan"))
    /\ backend_calls["Vulkan"] = <<Call("resize", << <<2, 1>>, 0, 1 >>)>>
    /\ backend_calls["Classic"] = <<>>

\* C10: a live context union carries the variant of the dispatcher it was
\* acquired from, and every capability call on a context union reaches the
\* context of that variant, with its arguments, and no other.
C10_ContextVariant ==
    renderer # None =>
        /\ api # None => Unwrap(api).variant = Unwrap(renderer).variant
        /\ context_calls[Unwrap(renderer).variant] = SelectSeq(issued, IsContextCall)
        /\ \A v \in Variants \ {Unwrap(renderer).variant} : context_calls[v] = <<>>

C10_Witness ==
    /\ renderer = Some(RuntimeQuadRenderer("Classic"))
    /\ api = Some([union |-> "RuntimeRenderer", variant |-> "Classic"])
    /\ Len(context_calls["Classic"]) = 2
    /\ context_calls["Classic"][1].op = "clear"
    /\ context_calls["Classic"][2].op = "render_cell"

\* The operation of the most recent call on the dispatcher or on a context.
LastOp == IF issued = <<>> THEN "none" ELSE issued[Len(issued)].op

IsWithCall(c) == c.op \in {"with_api", "with_api_dynamic", "with_loader", "with_loader_dynamic"}

IsAcquisition(c) == c.op \in {"borrow_api", "borrow_loader"} \/ IsWithCall(c)

IsDispatcherCall(c) == IsBaseCall(c) \/ IsAcquisition(c)

IsValue(b) == b \in BodyResults

\* C11: after any sequence of resize, draw_rects, borrow_api, borrow_loader,
\* with_api and with_loader calls the dispatcher still holds the variant it was
\* constructed with, and the wrapped backend is of the type that tag names.
C11_VariantFixed ==
    renderer # None =>
        /\ Unwrap(renderer).variant = renderer_api
        /\ Unwrap(renderer).wrapped = BackendType(Unwrap(renderer).variant)
        /\ Unwrap(renderer) = RuntimeQuadRenderer(renderer_api)

C11_Witness ==
    /\ renderer = Some(RuntimeQuadRenderer("Classic"))
    /\ Len(issued) = 3
    /\ issued[1].op = "resize"
    /\ issued[2].op = "with_api"
    /\ issued[3].op = "render_string"
    /\ scope = None

\* C12: a backend instance has at most one live context in total: at most one
\* frame context, at most one loader context, never one of each; hence every
\* acquisition starts from a state without a live context.
C12_OneLiveContext ==
    /\ Len(api) <= 1
    /\ Cardinality({i \in 1..Len(api) : api[i].union = "RuntimeRenderer"}) <= 1
    /\ Cardinality({i \in 1..Len(api) : api[i].union = "RuntimeLoader"}) <= 1
    /\ ~ \E i, j \in 1..Len(api) :
            api[i].union = "RuntimeRenderer" /\ api[j].union = "RuntimeLoader"
    /\ (issued # <<>> /\ IsAcquisition(issued[Len(issued)]) /\ ~panicked /\ api # None) =>
          Len(api) = 1

C12_Witness ==
    /\ Len(issued) = 2
    /\ issued[1].op = "borrow_api"
    /\ issued[2].op = "borrow_loader"
    /\ api = <<[union |-> "RuntimeLoader", variant |-> "Classic"]>>

\* C13: every with_* call acquires a context and invokes its body exactly once;
\* once the wrapper is over its context is released, and unless the body failed
\* the wrapper has returned the body's value.
C13_WithRunsBodyOnce ==
    /\ Len(SelectSeq(issued, IsWithCall)) = Len(bodies)
    /\ LET acquisitions == SelectSeq(issued, IsAcquisition)
       IN (scope = None /\ acquisitions # <<>>
              /\ IsWithCall(acquisitions[Len(acquisitions)])) => api = None
    /\ scope # None => (api # None /\ bodies[Len(bodies)] = "running")
    /\ returned = SelectSeq(bodies, IsValue)

\* C14: a resize reaches the backend only while no context of it is alive:
\* right after a resize call there is no live context and no open with_* scope.
C14_ResizeBetweenContexts == LastOp = "resize" => (api = None /\ scope = None)

C14_Witness ==
    /\ renderer = Some(RuntimeQuadRenderer("Classic"))
    /\ Len(issued) = 3
    /\ issued[1].op = "borrow_api"
    /\ issued[2].op = "clear"
    /\ issued[3].op = "resize"

\* C15 as stated: draw_rects is issued inside the with_frame_context scope,
\* while the frame context is alive.
C15_DrawRectsInsideFrame == LastOp = "draw_rects" => (HasRenderer /\ scope # None)

\* C15 as amended: clear, render_string and render_cell are issued only while a
\* frame context is alive, and draw_rects only when no context is alive and no
\* with_* scope is open, that is, after with_frame_context has returned.
C15_DrawRectsAfterFrame ==
    /\ LastOp = "draw_rects" => (api = None /\ scope = None)
    /\ \A i \in 1..Len(issued) :
          issued[i].op \in {"clear", "render_string", "render_cell"} =>
              \E j \in 1..(i - 1) :
                  /\ issued[j].op \in {"borrow_api", "with_api", "with_api_dynamic"}
                  /\ \A k \in (j + 1)..(i - 1) : ~IsDispatcherCall(issued[k])

C15_Witness ==
    /\ renderer = Some(RuntimeQuadRenderer("Classic"))
    /\ Len(issued) = 3
    /\ issued[1].op = "with_api"
    /\ issued[2].op = "clear"
    /\ issued[3].op = "draw_rects"
    /\ bodies = <<"unit">>

\* C16: a resize call issued while no context is alive completes normally, for
\* the Classic and for the Vulkan variant.
C16_ResizeCompletes == LastOp = "resize" => ~panicked

\* C17: with the Vulkan variant active every capability call ends in a fatal
\* abort: the first call reaches the Vulkan backend and aborts, nothing runs
\* after it, no context is ever returned and no body is ever invoked.
C17_VulkanAborts ==
    (renderer # None /\ Unwrap(renderer).variant = "Vulkan") =>
        /\ issued # <<>> => panicked
        /\ Len(issued) <= 1
        /\ Len(backend_calls["Vulkan"]) = Len(issued)
        /\ api = None /\ scope = None
        /\ bodies = <<>> /\ returned = <<>>
        /\ context_calls["Vulkan"] = <<>>

C17_Witness ==
    /\ renderer = Some(RuntimeQuadRenderer("Vulkan"))
    /\ issued = <<Call("with_api", <<>>)>>
    /\ backend_calls["Vulkan"] = <<Call("borrow_api", <<>>)>>
    /\ panicked
    /\ bodies = <<>>

\* The statements of VulkanQuadRenderer::new, in program order.
NewStages == <<"select", "device", "queues", "window", "sharing", "format", "present_mode",
               "swapchain">>

IsPrefix(s, t) == Len(s) <= Len(t) /\ \A k \in 1..Len(s) : s[k] = t[k]

IsError(r) == r # None /\ Unwrap(r) # Ok

\* The stage of `new` whose failure produces the error.
FailedStage(error) ==
    CASE error.variant = "NoMatchingDevice" -> "select"
      [] error.variant = "DeviceCreation" -> "device"
      [] error.variant = "Dynamic" /\ error.message = "No suitable supported formats" -> "format"
      [] error.variant = "Dynamic" /\ error.message = "No suitable present modes" -> "present_mode"
      [] error.variant = "SwapchainCreation" -> "swapchain"
      [] OTHER -> "none"

\* C18: `new` returns a backend only after device selection, device creation,
\* format selection, present-mode selection and swapchain creation have all run
\* and succeeded; a failed stage makes `new` return an error at once: the stage
\* is the last one executed, and nothing a later stage produces exists.
C18_AllOrNothing ==
    /\ IsPrefix(steps, NewStages)
    /\ (pc = "done") = (result = Some(Ok))
    /\ (pc = "failed") = IsError(result)
    /\ result = Some(Ok) =>
          /\ steps = NewStages
          /\ solution # None /\ graphics_queue # None /\ presentation_queue # None
          /\ format # None /\ present_mode # None /\ swapchain # None
    /\ IsError(result) =>
          /\ steps # <<>>
          /\ steps[Len(steps)] = FailedStage(Unwrap(result))
    /\ pc # "failed" =>
          /\ Ran("select") => solution # None
          /\ Ran("queues") => (graphics_queue # None /\ presentation_queue # None)
          /\ Ran("format") => format # None
          /\ Ran("present_mode") => present_mode # None
    /\ ~Ran("select") => solution = None
    /\ ~Ran("queues") => (graphics_queue = None /\ presentation_queue = None)
    /\ ~Ran("format") => format = None
    /\ ~Ran("present_mode") => present_mode = None
    /\ ~Ran("swapchain") => swapchain = None

C18_Witness ==
    /\ pc = "failed"
    /\ result = Some(Err("Dynamic", "No suitable present modes"))
    /\ steps = SubSeq(NewStages, 1, 7)
    /\ format # None
    /\ swapchain = None

\* The stages of VulkanInstance::new, in program order.
InstanceStages == <<"instance", "debug_callback", "surface">>

\* The part of the log that belongs to stage-wise construction of the Vulkan backend.
VkSteps == SelectSeq(steps, LAMBDA st : st \notin {"create_gl_window(false)",
                                                  "create_gl_window(true)"})

\* The error kind the claim gives each stage.
OwnKind(stage) ==
    CASE stage = "instance" -> "Instance"
      [] stage = "debug_callback" -> "DebugCallback"
      [] stage = "surface" -> "SurfaceCreation"
      [] stage = "select" -> "NoMatchingDevice"
      [] stage = "device" -> "DeviceCreation"
      [] stage = "format" -> "NoSuitableFormat"
      [] stage = "present_mode" -> "NoSuitablePresentMode"
      [] stage = "swapchain" -> "SwapchainCreation"
      [] OTHER -> "none"

\* C19 as stated: every failing stage produces an error kind of its own, none of
\* them the generic Dynamic kind, so the kind alone tells the stage.
C19_KindTellsStage ==
    IsError(result) =>
        /\ Unwrap(result).variant # "Dynamic"
        /\ Unwrap(result).variant = OwnKind(steps[Len(steps)])

\* C19 as amended: a failure of instance creation, debug-callback setup, surface
\* creation, device selection, device creation or swapchain creation has a kind
\* of its own; a missing format and a missing present mode both have the kind
\* Dynamic and differ in their message only.
C19_KindOrMessageTellsStage ==
    IsError(result) =>
        LET stage == steps[Len(steps)]
            error == Unwrap(result)
        IN /\ stage \in {"instance", "debug_callback", "surface", "select", "device",
                         "swapchain"} =>
                 (error.variant = OwnKind(stage) /\ error.message = "")
           /\ stage = "format" =>
                 error = Err("Dynamic", "No suitable supported formats")
           /\ stage = "present_mode" =>
                 error = Err("Dynamic", "No suitable present modes")
           /\ stage \in {"instance", "debug_callback", "surface", "select", "device",
                         "format", "present_mode", "swapchain"}
           /\ error.variant = "Dynamic" <=> stage \in {"format", "present_mode"}

C19_Witness ==
    /\ renderer_api = "Vulkan"
    /\ steps = InstanceStages \o SubSeq(NewStages, 1, 6)
    /\ result = Some(Err("Dynamic", "No suitable supported formats"))

\* C20: with the Vulkan api selected every stage is executed at most once and in
\* program order, the classic window is never created, and an error ends the
\* attempt: the failed stage is the last one executed, and Window::new returns
\* the error of VulkanInstance::new.
C20_NoRetryNoDowngrade ==
    renderer_api = "Vulkan" =>
        /\ VkSteps = steps
        /\ IsPrefix(steps, InstanceStages \o NewStages)
        /\ IsError(result) => pc \in {"vk_failed", "failed"}
        /\ (IsError(result) /\ pc = "failed") =>
              IF Len(steps) <= Len(InstanceStages)
              THEN window_result = Some(Err("VulkanInstanceCreation", Unwrap(result).variant))
              ELSE window_result = Some(Ok)
        /\ pc \in {"show", "started", "classic"} => ~IsError(result)
        /\ pc # "classic"

C20_Witness ==
    /\ renderer_api = "Vulkan"
    /\ pc = "failed"
    /\ steps = InstanceStages
    /\ result = Some(Err("SurfaceCreation", ""))
    /\ window_result = Some(Err("VulkanInstanceCreation", "SurfaceCreation"))

\* C21: in every build, the backends the configuration can select are the backends
\* the dispatcher has a variant for and Window::new has a match arm for.
C21_SelectableIsDispatchable ==
    /\ RendererApi_variants(features) = RuntimeQuadRenderer_variants(features)
    /\ RendererApi_variants(features) = Window_new_arms(features)

\* The selected device lists the preferred format pair.
ListsPreferredFormat ==
    \E k \in 1..Len(Caps.supported_formats) : Caps.supported_formats[k] = PreferredFormat

\* The selected device offers one of mailbox, immediate and fifo.
OffersPresentMode ==
    Caps.present_modes["mailbox"] \/ Caps.present_modes["immediate"] \/ Caps.present_modes["fifo"]

\* C22 as stated: the device and its queues are created only after the sharing
\* mode, the format and the present mode have been chosen, so for a selected device
\* without the preferred format or without a present mode no device creation is
\* attempted and no device-creation error is reported.
C22_DeviceAfterParameters ==
    /\ Ran("device") => sharing # None /\ format # None /\ present_mode # None
    /\ (solution # None /\ ~(ListsPreferredFormat /\ OffersPresentMode)) =>
          ~Ran("device") /\ result # Some(Err("DeviceCreation", ""))

\* C22, amended: only the swapchain is created after the parameters have been
\* chosen; the device and its queues are created before them. For a selected device
\* without the preferred format or without a present mode, device creation comes
\* first: negotiation ends with the device-creation error when it fails, with the
\* format or present-mode error otherwise, and never attempts the swapchain.
C22_SwapchainAfterParameters ==
    /\ Ran("swapchain") =>
          /\ sharing # None /\ format # None /\ present_mode # None /\ win_size # None
          /\ swapchain = Some(swapchain_arguments)
    /\ (Ran("window") \/ Ran("sharing") \/ Ran("format") \/ Ran("present_mode")) =>
          /\ Ran("device") /\ Ran("queues")
          /\ graphics_queue # None /\ presentation_queue # None
    /\ result = Some(Err("DeviceCreation", "")) =>
          /\ win_size = None /\ sharing = None /\ format = None /\ present_mode = None
          /\ swapchain = None
    /\ (solution # None /\ ~(ListsPreferredFormat /\ OffersPresentMode)) =>
          /\ ~Ran("swapchain")
          /\ pc = "failed" =>
                \/ result = Some(Err("DeviceCreation", ""))
                \/ ~ListsPreferredFormat /\ result = Some(Err("Dynamic", NoFormatMessage))
                \/ /\ ListsPreferredFormat
                   /\ result = Some(Err("Dynamic", NoPresentModeMessage))
          /\ pc # "done"

C22_Witness ==
    /\ solution # None
    /\ ~ListsPreferredFormat
    /\ Ran("device")
    /\ result = Some(Err("DeviceCreation", ""))

\* C23: the format is chosen before the present mode: a selected device with
\* neither the preferred format pair nor one of mailbox, immediate and fifo gets
\* the "no suitable format" error, and the "no suitable present mode" error is
\* returned only for a device that lists the preferred format pair.
C23_FormatBeforePresentMode ==
    /\ Ran("present_mode") => Ran("format") /\ format # None
    /\ (solution # None /\ ~ListsPreferredFormat /\ ~OffersPresentMode) =>
          /\ result # Some(Err("Dynamic", NoPresentModeMessage))
          /\ ~Ran("present_mode")
          /\ Ran("format") => result = Some(Err("Dynamic", NoFormatMessage))
    /\ result = Some(Err("Dynamic", NoPresentModeMessage)) =>
          /\ ListsPreferredFormat /\ ~OffersPresentMode
          /\ format = Some(PreferredFormat)

C23_Witness ==
    /\ solution # None
    /\ ~ListsPreferredFormat /\ ~OffersPresentMode
    /\ result = Some(Err("Dynamic", NoFormatMessage))

\* A device with the preferred format and no present mode gets the other error.
C23_WitnessPresentMode ==
    /\ solution # None
    /\ ListsPreferredFormat /\ ~OffersPresentMode
    /\ result = Some(Err("Dynamic", NoPresentModeMessage))

\* The eligible devices of the enumeration, by position.
EligibleDevices == {i \in 1..Len(devices) : Eligible(i)}

\* The first eligible device of the enumeration.
FirstEligible == CHOOSE i \in EligibleDevices : \A j \in EligibleDevices : i <= j

\* C24: eligibility looks at the extension and the queue families only, and the
\* first eligible device is final: when it lacks the preferred format pair (or all
\* three present modes) negotiation fails, with that error once the format (or
\* present-mode) step is reached, even when a later eligible device has them; the
\* format and the present mode are only ever taken from the first eligible device.
C24_FirstEligibleIsFinal ==
    (Ran("select") /\ EligibleDevices # {}) =>
       /\ solution # None
       /\ Unwrap(solution).physical_device = FirstEligible
       /\ Caps = devices[FirstEligible].capabilities
       /\ ~ListsPreferredFormat =>
             /\ result # Some(Ok) /\ pc # "done" /\ format = None /\ swapchain = None
             /\ Ran("format") => result = Some(Err("Dynamic", NoFormatMessage))
       /\ (ListsPreferredFormat /\ ~OffersPresentMode) =>
             /\ result # Some(Ok) /\ pc # "done" /\ present_mode = None /\ swapchain = None
             /\ Ran("present_mode") => result = Some(Err("Dynamic", NoPresentModeMessage))
       /\ format # None => format = Some(PreferredFormat) /\ ListsPreferredFormat
       /\ present_mode # None => OffersPresentMode

\* The first of two eligible devices lacks the format the second one lists.
C24_Witness ==
    /\ Len(devices) = 2
    /\ EligibleDevices = {1, 2}
    /\ \A k \in 1..Len(devices[1].capabilities.supported_formats) :
          devices[1].capabilities.supported_formats[k] # PreferredFormat
    /\ devices[2].capabilities.supported_formats = <<PreferredFormat>>
    /\ devices[2].capabilities.present_modes["fifo"]
    /\ result = Some(Err("Dynamic", NoFormatMessage))

\* The families of the selected device, as the enumeration gives them.
SelectedFamilies == devices[Unwrap(solution).physical_device].families

\* The positions of the families with a queue that support graphics.
GraphicsFamilies ==
    {k \in 1..Len(SelectedFamilies) :
        SelectedFamilies[k].queues_count > 0 /\ SelectedFamilies[k].supports_graphics}

\* The positions of the families with a queue that can present to the surface.
PresentationFamilies ==
    {k \in 1..Len(SelectedFamilies) :
        SelectedFamilies[k].queues_count > 0 /\ SelectedFamilies[k].surface_supported}

Lowest(S) == CHOOSE k \in S : \A j \in S : k <= j

\* C25: within the selected device the graphics family is the lowest-indexed
\* family with a queue that supports graphics, the presentation family is the
\* lowest-indexed family with a queue that can present, each chosen without regard
\* to the other; the solution shares one family (Exclusive) exactly when the two
\* lowest indices coincide, whether or not some other family could serve both.
C25_FamiliesByLowestIndex ==
    solution # None =>
       /\ GraphicsFamilies # {} /\ PresentationFamilies # {}
       /\ Unwrap(solution).graphics_family.id = Lowest(GraphicsFamilies) - 1
       /\ Unwrap(solution).presentation_family.id = Lowest(PresentationFamilies) - 1
       /\ queues_are_same(Unwrap(solution)) <=>
             Lowest(GraphicsFamilies) = Lowest(PresentationFamilies)
       /\ sharing # None =>
             (Unwrap(sharing).mode = "Exclusive" <=>
                 Lowest(GraphicsFamilies) = Lowest(PresentationFamilies))

\* Family 0 supports graphics only and family 1 both: two families are used.
C25_Witness ==
    /\ solution # None
    /\ Len(SelectedFamilies) = 2
    /\ GraphicsFamilies = {1, 2} /\ PresentationFamilies = {2}
    /\ Unwrap(solution).graphics_family.id = 0
    /\ Unwrap(solution).presentation_family.id = 1
    /\ sharing # None /\ Unwrap(sharing).mode = "Concurrent"

\* C26: the families requested at device creation agree with the sharing mode of
\* the swapchain: one entry, the graphics family, when the mode is Exclusive, and
\* two entries, graphics then presentation, when it is Concurrent, each with the
\* default priority; the queues taken afterwards are as many as the families
\* requested (one queue for both roles, or two in that order), so no family is
\* requested twice and every queue taken was requested.
C26_FamiliesMatchSharingMode ==
    /\ Ran("device") =>
          LET sol == Unwrap(solution)
          IN /\ Len(requested) \in {1, 2}
             /\ requested[1] = <<sol.graphics_family, DEFAULT_QUEUE_PRIORITY>>
             /\ Len(requested) = 2 =>
                   /\ requested[2] = <<sol.presentation_family, DEFAULT_QUEUE_PRIORITY>>
                   /\ requested[1][1].id # requested[2][1].id
             /\ Len(requested) = 1 <=> sol.graphics_family.id = sol.presentation_family.id
    /\ ~Ran("device") => requested = <<>>
    /\ sharing # None =>
          /\ Unwrap(sharing).mode = "Exclusive" =>
                /\ Len(requested) = 1
                /\ Unwrap(sharing).ids = <<requested[1][1].id>>
          /\ Unwrap(sharing).mode = "Concurrent" =>
                /\ Len(requested) = 2
                /\ Unwrap(sharing).ids = <<requested[1][1].id, requested[2][1].id>>
          /\ Unwrap(sharing).mode \in {"Exclusive", "Concurrent"}
    /\ Ran("queues") =>
          /\ graphics_queue # None /\ presentation_queue # None
          /\ queues = <<>>
          /\ Cardinality({Unwrap(graphics_queue), Unwrap(presentation_queue)}) = Len(requested)
          /\ Unwrap(graphics_queue) = [family |-> requested[1][1].id, index |-> 1]
          /\ Unwrap(presentation_queue) =
                [family |-> requested[Len(requested)][1].id, index |-> Len(requested)]
    /\ ~Ran("queues") => graphics_queue = None /\ presentation_queue = None

C26_Witness ==
    /\ Ran("queues") /\ sharing # None
    /\ Unwrap(sharing).mode = "Concurrent"
    /\ Len(requested) = 2
    /\ Unwrap(graphics_queue).family = 1 /\ Unwrap(presentation_queue).family = 0

\* The shared case: one family requested, one queue taken for both roles.
C26_WitnessExclusive ==
    /\ Ran("queues") /\ sharing # None
    /\ Unwrap(sharing).mode = "Exclusive"
    /\ Len(requested) = 1
    /\ graphics_queue = presentation_queue

====
